---- MODULE Spec2Model ----
(***************************************************************************)
(* Model of ludo_mcts.py: the two-player Ludo rules (LudoState) and the    *)
(* Monte Carlo Tree Search engine (MCTSNode, MCTS, choose_blue_move).      *)
(*                                                                         *)
(* Python lists are sequences; a token index idx of the code (0..3) is     *)
(* element idx + 1 of the sequence.  An Action is <<token_index, target>>. *)
(***************************************************************************)
EXTENDS Integers, Sequences, FiniteSets, TLC

VARIABLES
    game,           \* the LudoState a caller holds and calls the rules on
    call,           \* the last call made on game: its inputs and results
    root_state,     \* the LudoState passed to choose_blue_move / search
    n_simulations,  \* MCTS.n_simulations
    nodes,          \* MCTS.nodes: state key -> MCTSNode
    pc,             \* where the search is
    sims_done,      \* completed iterations of the loop of search
    state,          \* the LudoState _simulate walks
    path,           \* the path of _simulate
    rstate,         \* the LudoState _rollout plays on (its parameter state)
    depth,          \* completed iterations of the loop of _rollout
    value,          \* the value _rollout returned to _simulate
    result,         \* what search returned
    random,         \* the random source: the state of the module random
    earlier         \* the calls of search that returned before this one

vars == <<game, call, root_state, n_simulations, nodes, pc, sims_done, state,
          path, rstate, depth, value, result, random, earlier>>

searchVars == <<root_state, n_simulations, nodes, pc, sims_done, state, path,
                rstate, depth, value, result, random, earlier>>

\* ------------------------------------------------------------ constants
TRACK_LEN == 40
FINISH_LEN == 4
BLUE_START == 0
RED_START == TRACK_LEN \div 2
HOME == -1

Players == {"Blue", "Red"}
Dice == 1..6

other_player(player) == IF player = "Blue" THEN "Red" ELSE "Blue"

\* x in list
InList(x, list) == \E i \in 1..Len(list) : list[i] = x

\* ------------------------------------------------------------ LudoState
LudoState(blue, red, player) ==
    [blue_tokens |-> blue, red_tokens |-> red, current_player |-> player]

clone(s) == LudoState(s.blue_tokens, s.red_tokens, s.current_player)

\* Mutant of clone: the token lists are passed on, not copied.
CloneSharesLists == {"blue_tokens", "red_tokens"}

\* The attributes of a clone that are the objects the original holds: none,
\* as clone copies both lists (and a player is a string, which never changes).
CloneShares == {}

\* A LudoState that was cloned from, or is a clone of, the one that changed
\* to s: an attribute they share has changed with it.
Through(other, s) ==
    [blue_tokens |-> IF "blue_tokens" \in CloneShares THEN s.blue_tokens
                     ELSE other.blue_tokens,
     red_tokens |-> IF "red_tokens" \in CloneShares THEN s.red_tokens
                    ELSE other.red_tokens,
     current_player |-> other.current_player]

\* Mutant of key: the player to move is left out (one value for both players).
KeyWithoutTurn(s) == <<"Blue", s.blue_tokens, s.red_tokens>>

key(s) == <<s.current_player, s.blue_tokens, s.red_tokens>>

_current_tokens(s) ==
    IF s.current_player = "Blue" THEN s.blue_tokens ELSE s.red_tokens

_opponent_tokens(s) ==
    IF s.current_player = "Blue" THEN s.red_tokens ELSE s.blue_tokens

_all_finished(tokens) ==
    \A i \in 1..Len(tokens) : tokens[i] >= TRACK_LEN + FINISH_LEN - 1

is_terminal(s) == _all_finished(s.blue_tokens) \/ _all_finished(s.red_tokens)

\* None is the string "None"
\* Mutant of winner: Red is asked first.
WinnerRedFirst(s) ==
    IF _all_finished(s.red_tokens) THEN "Red"
    ELSE IF _all_finished(s.blue_tokens) THEN "Blue"
    ELSE "None"

winner(s) ==
    IF _all_finished(s.blue_tokens) THEN "Blue"
    ELSE IF _all_finished(s.red_tokens) THEN "Red"
    ELSE "None"

_track_to_global(pos, player) ==
    LET start == IF player = "Blue" THEN BLUE_START ELSE RED_START
    IN  (start + pos) % TRACK_LEN

\* the absolute squares of the tokens that are on the shared track, in order
RECURSIVE _track_positions(_, _)
_track_positions(tokens, player) ==
    IF tokens = <<>> THEN <<>>
    ELSE LET pos == Head(tokens)
             rest == _track_positions(Tail(tokens), player)
         IN  IF 0 <= pos /\ pos < TRACK_LEN
             THEN <<_track_to_global(pos, player)>> \o rest
             ELSE rest

\* Mutant of the loop body of get_legal_actions: a finish-lane target is not
\* tested against the mover's own tokens.
LegalLaneUnchecked(tokens, own_track_positions, dice_roll, idx, pos) ==
    IF pos = HOME
    THEN IF dice_roll # 6 THEN <<>>
         ELSE IF InList(0, own_track_positions) THEN <<>>
         ELSE << <<idx, 0>> >>
    ELSE IF pos >= TRACK_LEN + FINISH_LEN THEN <<>>
    ELSE LET target == pos + dice_roll
         IN  IF target >= TRACK_LEN + FINISH_LEN THEN <<>>
             ELSE IF target >= TRACK_LEN THEN << <<idx, target>> >>
             ELSE IF InList(target, own_track_positions) THEN <<>>
             ELSE << <<idx, target>> >>

\* The body of the loop of get_legal_actions for the token idx at pos: the
\* actions it appends (none or one).
LegalOfToken(tokens, own_track_positions, dice_roll, idx, pos) ==
    IF pos = HOME
    THEN IF dice_roll # 6 THEN <<>>
         ELSE IF InList(0, own_track_positions) THEN <<>>
         ELSE << <<idx, 0>> >>
    ELSE IF pos >= TRACK_LEN + FINISH_LEN THEN <<>>
    ELSE LET target == pos + dice_roll
         IN  IF target >= TRACK_LEN + FINISH_LEN THEN <<>>
             ELSE IF target >= TRACK_LEN
             THEN IF InList(target, tokens) THEN <<>> ELSE << <<idx, target>> >>
             ELSE IF InList(target, own_track_positions) THEN <<>>
             ELSE << <<idx, target>> >>

RECURSIVE LegalFrom(_, _, _, _)
LegalFrom(tokens, own_track_positions, dice_roll, idx) ==
    IF idx >= Len(tokens) THEN <<>>
    ELSE LegalOfToken(tokens, own_track_positions, dice_roll, idx, tokens[idx + 1])
         \o LegalFrom(tokens, own_track_positions, dice_roll, idx + 1)

get_legal_actions(s, dice_roll) ==
    LET tokens == _current_tokens(s)
        own_track_positions == _track_positions(tokens, s.current_player)
    IN  LegalFrom(tokens, own_track_positions, dice_roll, 0)

\* Mutant of _capture_opponent: the test that the token is on the shared track
\* is left out.
CaptureOffTrack(s, target_global) ==
    LET opponent == _opponent_tokens(s)
        opponent_player == other_player(s.current_player)
    IN  [idx \in 1..Len(opponent) |->
            IF _track_to_global(opponent[idx], opponent_player) = target_global
            THEN HOME
            ELSE opponent[idx]]

\* the opponent's token list after _capture_opponent(target_global)
_capture_opponent(s, target_global) ==
    LET opponent == _opponent_tokens(s)
        opponent_player == other_player(s.current_player)
    IN  [idx \in 1..Len(opponent) |->
            IF 0 <= opponent[idx] /\ opponent[idx] < TRACK_LEN
               /\ _track_to_global(opponent[idx], opponent_player) = target_global
            THEN HOME
            ELSE opponent[idx]]

\* Mutant of apply_action: the home-token check comes after the capture.
ApplyCaptureBeforeCheck(s, action) ==
    LET token_index == action[1]
        target == action[2]
        tokens == _current_tokens(s)
        opponent_tokens == _opponent_tokens(s)
        target_global == _track_to_global(target, s.current_player)
        captured ==
            IF target < TRACK_LEN
               /\ InList(target_global,
                         _track_positions(opponent_tokens, other_player(s.current_player)))
            THEN [idx \in 1..Len(opponent_tokens) |->
                    IF 0 <= opponent_tokens[idx] /\ opponent_tokens[idx] < TRACK_LEN
                       /\ _track_to_global(opponent_tokens[idx],
                                           other_player(s.current_player)) = target_global
                    THEN HOME ELSE opponent_tokens[idx]]
            ELSE opponent_tokens
        moved == [tokens EXCEPT ![token_index + 1] = target]
    IN  IF tokens[token_index + 1] = HOME /\ target # 0
        THEN [state |->
                 IF s.current_player = "Blue"
                 THEN LudoState(tokens, captured, s.current_player)
                 ELSE LudoState(captured, tokens, s.current_player),
              raised |-> TRUE]
        ELSE [state |->
                 IF s.current_player = "Blue"
                 THEN LudoState(moved, captured, other_player(s.current_player))
                 ELSE LudoState(captured, moved, other_player(s.current_player)),
              raised |-> FALSE]

\* Mutant of apply_action: a capture gives the mover another turn.
ApplyExtraTurnOnCapture(s, action) ==
    LET token_index == action[1]
        target == action[2]
        tokens == _current_tokens(s)
        opponent_tokens == _opponent_tokens(s)
        target_global == _track_to_global(target, s.current_player)
        hit == target < TRACK_LEN
               /\ InList(target_global,
                         _track_positions(opponent_tokens, other_player(s.current_player)))
        captured ==
            IF hit
            THEN [idx \in 1..Len(opponent_tokens) |->
                    IF 0 <= opponent_tokens[idx] /\ opponent_tokens[idx] < TRACK_LEN
                       /\ _track_to_global(opponent_tokens[idx],
                                           other_player(s.current_player)) = target_global
                    THEN HOME ELSE opponent_tokens[idx]]
            ELSE opponent_tokens
        moved == [tokens EXCEPT ![token_index + 1] = target]
        next_player == IF hit THEN s.current_player ELSE other_player(s.current_player)
    IN  IF tokens[token_index + 1] = HOME /\ target # 0
        THEN [state |-> s, raised |-> TRUE]
        ELSE [state |->
                 IF s.current_player = "Blue"
                 THEN LudoState(moved, captured, next_player)
                 ELSE LudoState(captured, moved, next_player),
              raised |-> FALSE]

\* apply_action: the state it leaves and whether it raised ValueError
apply_action(s, action) ==
    LET token_index == action[1]
        target == action[2]
        tokens == _current_tokens(s)
        opponent_tokens == _opponent_tokens(s)
        target_global == _track_to_global(target, s.current_player)
        opponent_track_positions ==
            _track_positions(opponent_tokens, other_player(s.current_player))
        captured ==
            IF target < TRACK_LEN /\ InList(target_global, opponent_track_positions)
            THEN _capture_opponent(s, target_global)
            ELSE opponent_tokens
        moved == [tokens EXCEPT ![token_index + 1] = target]
    IN  IF tokens[token_index + 1] = HOME /\ target # 0
        THEN [state |-> s, raised |-> TRUE]
        ELSE [state |->
                 IF s.current_player = "Blue"
                 THEN LudoState(moved, captured, other_player(s.current_player))
                 ELSE LudoState(captured, moved, other_player(s.current_player)),
              raised |-> FALSE]

\* state.current_player = other_player(state.current_player)
pass_turn(s) == [s EXCEPT !.current_player = other_player(s.current_player)]

\* ---------------------------------------------------- the random source
\* The random source is the generator of the module random.  Left alone it
\* gives any value; seeded, it gives the values of a stream that is fixed by
\* the seed (here a stream that repeats), one after the other.
Unseeded == [stream |-> <<>>, pos |-> 1]

Seeded(stream) == [stream |-> stream, pos |-> 1]

\* the values random.randint(1, 6) can return
randint(r) == IF r.stream = <<>> THEN Dice ELSE {r.stream[r.pos]}

\* the random source after a value was drawn from it
Drawn(r) ==
    IF r.stream = <<>> THEN r ELSE [r EXCEPT !.pos = (@ % Len(r.stream)) + 1]

\* the indices (from 1) random.choice can pick in a list of n elements
choice(r, n) ==
    IF r.stream = <<>> THEN 1..n
    ELSE IF n = 0 THEN {}
    ELSE {((r.stream[r.pos] - 1) % n) + 1}

\* --------------------------------------------------- calls on the rules
\* The rules are exercised on their own: a caller holds a LudoState (game),
\* asks for the legal actions of a die, and applies an action: one of those
\* returned, or any action of its own making.

NoAction == <<0 - 1, 0 - 1>>
NoState == LudoState(<<>>, <<>>, "None")
NoCall == [op |-> "none", pre |-> NoState, dice_roll |-> 0,
           legal_actions |-> <<>>, action |-> NoAction, raised |-> FALSE,
           is_terminal |-> FALSE, winner |-> "None"]

\* Input token lists: four tokens on the given squares, all but two at home.
TokenLists(squares) ==
    {l \in [1..4 -> squares] :
        \E i, j \in 1..4 : \A k \in (1..4) \ {i, j} : l[k] = HOME}

\* Squares of the player to move: home, entry square, squares one die apart
\* on the track (14, 20), the square half a lap on (20), the last squares of
\* the track and the finish lane.
MoverSquares == {HOME, 0, 14, 20, 38, 40}
\* Squares of the opponent: home, the two entry squares, the finish lane.
OpponentSquares == {HOME, 0, 20, 40}
\* Targets of the actions a caller makes up itself
CallerTargets == {0, 20, 40}

InputStates ==
    {IF p = "Blue" THEN LudoState(m, o, p) ELSE LudoState(o, m, p) :
        p \in Players, m \in TokenLists(MoverSquares),
        o \in TokenLists(OpponentSquares)}

SearchIdle ==
    /\ root_state = NoState
    /\ n_simulations = 0
    /\ nodes = <<>>
    /\ pc = "idle"
    /\ sims_done = 0
    /\ state = NoState
    /\ path = <<>>
    /\ rstate = NoState
    /\ depth = 0
    /\ value = 0
    /\ result = "None"
    /\ random = Unseeded
    /\ earlier = <<>>

RulesInit ==
    /\ game \in InputStates
    /\ call = NoCall
    /\ SearchIdle

\* legal_actions = game.get_legal_actions(dice_roll)
GetLegalActions(dice_roll) ==
    /\ call.op = "none"
    /\ call' = [NoCall EXCEPT !.op = "get_legal_actions", !.pre = game,
                              !.dice_roll = dice_roll,
                              !.legal_actions = get_legal_actions(game, dice_roll)]
    /\ UNCHANGED <<game, searchVars>>

\* game.apply_action(action), for an action get_legal_actions returned
ApplyLegal(i) ==
    /\ call.op = "get_legal_actions"
    /\ i \in 1..Len(call.legal_actions)
    /\ LET r == apply_action(game, call.legal_actions[i])
       IN  /\ game' = r.state
           /\ call' = [call EXCEPT !.op = "apply_action",
                                   !.action = call.legal_actions[i],
                                   !.raised = r.raised]
    /\ UNCHANGED searchVars

\* game.apply_action(action), for any action
ApplyAction(action) ==
    /\ call.op = "none"
    /\ LET r == apply_action(game, action)
       IN  /\ game' = r.state
           /\ call' = [NoCall EXCEPT !.op = "apply_action", !.pre = game,
                                     !.action = action, !.raised = r.raised]
    /\ UNCHANGED searchVars

RulesNext ==
    \/ \E d \in Dice : GetLegalActions(d)
    \/ \E i \in 1..4 : ApplyLegal(i)
    \/ \E idx \in 0..3, t \in CallerTargets : ApplyAction(<<idx, t>>)

RulesSpec == RulesInit /\ [][RulesNext]_vars

\* ------------------------------------------------------- a turn of play
\* One turn of a game, as _rollout and the caller of choose_blue_move play
\* it: a die, its legal actions, one of them applied or the turn passed.  The
\* states a turn is played from have each player's tokens at home, short of
\* the finish lane, or in it, no two tokens of a player in one finish-lane
\* slot; the start of a game (all tokens at home) is one of them.
LaneSquares == {HOME, 37, 39, 40, 42, 43}
OpponentLaneSquares == {HOME, 40, 43}

OnePerLaneSlot(tokens) ==
    \A i, j \in 1..Len(tokens) :
        i # j /\ tokens[i] >= TRACK_LEN => tokens[i] # tokens[j]

LaneStates ==
    {IF p = "Blue" THEN LudoState(m, o, p) ELSE LudoState(o, m, p) :
        p \in Players,
        m \in {l \in [1..4 -> LaneSquares] : OnePerLaneSlot(l)},
        o \in {l \in TokenLists(OpponentLaneSquares) : OnePerLaneSlot(l)}}

LaneInit ==
    /\ game \in LaneStates
    /\ call = NoCall
    /\ SearchIdle

\* no legal action for the die: state.current_player = other_player(...)
PassTurn ==
    /\ call.op = "get_legal_actions"
    /\ call.legal_actions = <<>>
    /\ game' = pass_turn(game)
    /\ call' = [call EXCEPT !.op = "pass"]
    /\ UNCHANGED searchVars

LaneNext ==
    \/ \E d \in Dice : GetLegalActions(d)
    \/ \E i \in 1..4 : ApplyLegal(i)
    \/ PassTurn

LaneSpec == LaneInit /\ [][LaneNext]_vars

\* ------------------------------------------------- the end of the game
\* is_terminal() and winner() are asked of states with tokens at home, on
\* the last finish square but one, and on the last finish square.
FinishSquares == {HOME, 42, 43}

FinishStates ==
    {LudoState(b, r, p) :
        b \in [1..4 -> FinishSquares], r \in [1..4 -> FinishSquares],
        p \in Players}

FinishInit ==
    /\ game \in FinishStates
    /\ call = NoCall
    /\ SearchIdle

\* game.is_terminal(), game.winner()
AskWinner ==
    /\ call.op = "none"
    /\ call' = [NoCall EXCEPT !.op = "winner", !.pre = game,
                              !.is_terminal = is_terminal(game),
                              !.winner = winner(game)]
    /\ UNCHANGED <<game, searchVars>>

FinishNext == AskWinner

FinishSpec == FinishInit /\ [][FinishNext]_vars

\* ------------------------------------------------------------- MCTSNode
\* A Python dict is the sequence of its <<key, value>> items in insertion order.
DictHas(d, k) == \E i \in 1..Len(d) : d[i][1] = k

DictGet(d, k, default) ==
    IF DictHas(d, k) THEN d[CHOOSE i \in 1..Len(d) : d[i][1] = k][2] ELSE default

DictSet(d, k, v) ==
    IF DictHas(d, k)
    THEN [i \in 1..Len(d) |-> IF d[i][1] = k THEN <<k, v>> ELSE d[i]]
    ELSE Append(d, <<k, v>>)

MCTSNode(state_key) ==
    [state_key |-> state_key, children |-> <<>>, N |-> <<>>, W |-> <<>>,
     total_visits |-> 0]

\* Floats are fixed-point numbers in thousandths.  W is a sum of outcomes
\* 1.0, -1.0 and 0.0: an integer.
cpuct == 14             \* the default cpuct 1.4, in tenths
INF_SCORE == 1000000000 \* float("inf")
\* math.log(k) in millionths, k = 1..12
LnMicro == <<0, 693147, 1098612, 1386294, 1609438, 1791759, 1945910, 2079442,
             2197225, 2302585, 2397895, 2484907>>

RECURSIVE ISqrtIn(_, _, _)
ISqrtIn(x, lo, hi) ==
    IF lo >= hi THEN lo
    ELSE LET mid == (lo + hi + 1) \div 2
         IN  IF mid * mid <= x THEN ISqrtIn(x, mid, hi) ELSE ISqrtIn(x, lo, mid - 1)

\* math.sqrt of x millionths, in thousandths
SqrtMilli(x) == ISqrtIn(x, 0, 46340)

q_value(node, action) ==
    IF DictGet(node.N, action, 0) = 0 THEN 0
    ELSE (1000 * DictGet(node.W, action, 0)) \div DictGet(node.N, action, 0)

uct_score(node, action, c, player) ==
    LET n_sa == DictGet(node.N, action, 0)
        sign == IF player = "Blue" THEN 1 ELSE 0 - 1
        exploitation == sign * q_value(node, action)
        exploration ==
            SqrtMilli((c * c * LnMicro[node.total_visits + 1]) \div (100 * n_sa))
    IN  IF n_sa = 0 THEN INF_SCORE ELSE exploitation + exploration

\* max(seq, key=...): the index of the first of the largest keys, the keys
\* given in the order of seq
ArgMaxFirst(keys) ==
    CHOOSE i \in 1..Len(keys) :
        /\ \A j \in 1..Len(keys) : keys[j] <= keys[i]
        /\ \A j \in 1..(i - 1) : keys[j] < keys[i]

\* ----------------------------------------------------------------- MCTS
max_depth == 200

\* Mutant of _value_to_winner: the value 0.0 counts for Blue.
ValueDrawForBlue(value_) ==
    IF value_ >= 0 THEN "Blue" ELSE "Red"

_value_to_winner(value_) ==
    IF value_ > 0 THEN "Blue" ELSE IF value_ < 0 THEN "Red" ELSE "None"

\* Mutant of the loop of _backpropagate: total_visits is not counted.
RECURSIVE BackpropNoTotal(_, _, _)
BackpropNoTotal(nds, p, outcome) ==
    IF p = <<>> THEN nds
    ELSE LET k == Head(p)[1]
             action == Head(p)[2]
             node == nds[k]
             updated ==
                 [node EXCEPT
                    !.N = DictSet(@, action, DictGet(@, action, 0) + 1),
                    !.W = DictSet(@, action, DictGet(@, action, 0) + outcome)]
         IN  BackpropNoTotal([nds EXCEPT ![k] = updated], Tail(p), outcome)

\* Mutant of the loop of _backpropagate: the outcome is taken from the side
\* of the player of the path entry.
RECURSIVE BackpropFlipped(_, _, _)
BackpropFlipped(nds, p, outcome) ==
    IF p = <<>> THEN nds
    ELSE LET k == Head(p)[1]
             action == Head(p)[2]
             node == nds[k]
             signed == IF Head(p)[3] = "Red" THEN 0 - outcome ELSE outcome
             updated ==
                 [node EXCEPT
                    !.total_visits = @ + 1,
                    !.N = DictSet(@, action, DictGet(@, action, 0) + 1),
                    !.W = DictSet(@, action, DictGet(@, action, 0) + signed)]
         IN  BackpropFlipped([nds EXCEPT ![k] = updated], Tail(p), outcome)

\* A path entry is <<node, action, player>>; the node is named by its key.
RECURSIVE BackpropFrom(_, _, _)
BackpropFrom(nds, p, outcome) ==
    IF p = <<>> THEN nds
    ELSE LET k == Head(p)[1]
             action == Head(p)[2]
             node == nds[k]
             updated ==
                 [node EXCEPT
                    !.total_visits = @ + 1,
                    !.N = DictSet(@, action, DictGet(@, action, 0) + 1),
                    !.W = DictSet(@, action, DictGet(@, action, 0) + outcome)]
         IN  BackpropFrom([nds EXCEPT ![k] = updated], Tail(p), outcome)

\* the node table after _backpropagate(path, winner)
_backpropagate(nds, p, winner_) ==
    LET outcome == IF winner_ = "Blue" THEN 1
                   ELSE IF winner_ = "Red" THEN 0 - 1
                   ELSE 0
    IN  BackpropFrom(nds, p, outcome)

\* Mutant of the last lines of search: the first recorded action is returned.
FirstChild(root_node) ==
    IF root_node.N = <<>> THEN "None" ELSE root_node.N[1][1]

\* the last lines of search: the most visited action of the root node
RobustChild(root_node) ==
    IF root_node.N = <<>> THEN "None"
    ELSE LET items == root_node.N
             visits == [i \in 1..Len(items) |-> items[i][2]]
         IN  items[ArgMaxFirst(visits)][1]

\* the root node is made at the start of search if it is not in the table
WithRoot(nds, root_key) ==
    IF root_key \in DOMAIN nds THEN nds ELSE nds @@ (root_key :> MCTSNode(root_key))

\* Mutant of choose_blue_move: the precondition is left out.
ChooseUnchecked ==
    /\ pc = "idle"
    /\ pc' = "search"
    /\ nodes' = WithRoot(<<>>, key(root_state))
    /\ UNCHANGED <<game, call, root_state, n_simulations, sims_done, state,
                   path, rstate, depth, value, result, random, earlier>>

\* choose_blue_move(root_state, n_simulations): the precondition, a new
\* engine, and search up to its loop
ChooseBlueMove ==
    /\ pc = "idle"
    /\ IF root_state.current_player # "Blue"
       THEN /\ pc' = "raised"
            /\ UNCHANGED nodes
       ELSE /\ pc' = "search"
            /\ nodes' = WithRoot(<<>>, key(root_state))
    /\ UNCHANGED <<game, call, root_state, n_simulations, sims_done, state,
                   path, rstate, depth, value, result, random, earlier>>

\* MCTS(n_simulations=n_simulations).search(root_state), up to its loop
Search ==
    /\ pc = "idle"
    /\ pc' = "search"
    /\ nodes' = WithRoot(nodes, key(root_state))
    /\ UNCHANGED <<game, call, root_state, n_simulations, sims_done, state,
                   path, rstate, depth, value, result, random, earlier>>

\* one iteration of the loop of search starts: self._simulate(root_state.clone())
Simulate ==
    /\ pc = "search"
    /\ sims_done < n_simulations
    /\ pc' = "simulate"
    /\ state' = clone(root_state)
    /\ path' = <<>>
    /\ UNCHANGED <<game, call, root_state, n_simulations, nodes, sims_done,
                   rstate, depth, value, result, random, earlier>>

\* the loop of search is over: the result
SearchReturn ==
    /\ pc = "search"
    /\ sims_done = n_simulations
    /\ pc' = "returned"
    /\ result' = RobustChild(nodes[key(root_state)])
    /\ UNCHANGED <<game, call, root_state, n_simulations, nodes, sims_done,
                   state, path, rstate, depth, value, random, earlier>>

\* _simulate returns self._backpropagate(path, winner): its locals are gone
\* and the loop of search goes on
Return(winner_) ==
    /\ nodes' = _backpropagate(nodes, path, winner_)
    /\ sims_done' = sims_done + 1
    /\ pc' = "search"
    /\ state' = NoState
    /\ path' = <<>>
    /\ rstate' = NoState
    /\ depth' = 0
    /\ value' = 0
    /\ UNCHANGED <<game, call, root_state, n_simulations, result, random, earlier>>

\* _simulate: the state is terminal
SimTerminal ==
    /\ pc = "simulate"
    /\ is_terminal(state)
    /\ Return(winner(state))

\* _simulate: no node for the state: make it and roll out from the state
SimNewLeaf ==
    /\ pc = "simulate"
    /\ ~is_terminal(state)
    /\ key(state) \notin DOMAIN nodes
    /\ nodes' = nodes @@ (key(state) :> MCTSNode(key(state)))
    /\ pc' = "rollout(state)"
    /\ rstate' = state
    /\ depth' = 0
    /\ UNCHANGED <<game, call, root_state, n_simulations, sims_done, state,
                   path, value, result, random, earlier>>

\* _simulate: the die gives no legal action: the turn passes
SimPass(dice_roll) ==
    /\ pc = "simulate"
    /\ ~is_terminal(state)
    /\ key(state) \in DOMAIN nodes
    /\ dice_roll \in randint(random)
    /\ get_legal_actions(state, dice_roll) = <<>>
    /\ state' = pass_turn(state)
    /\ root_state' = Through(root_state, state')
    /\ random' = Drawn(random)
    /\ UNCHANGED <<game, call, n_simulations, nodes, pc, sims_done, path,
                   rstate, depth, value, result, earlier>>

\* the legal actions that are not in node.children, in order
Untried(node, legal_actions) ==
    SelectSeq(legal_actions, LAMBDA action : ~DictHas(node.children, action))

\* _simulate: expansion by one of the untried actions (random.choice)
SimExpand(dice_roll) ==
    /\ pc = "simulate"
    /\ ~is_terminal(state)
    /\ key(state) \in DOMAIN nodes
    /\ dice_roll \in randint(random)
    /\ LET node == nodes[key(state)]
           legal_actions == get_legal_actions(state, dice_roll)
           untried == Untried(node, legal_actions)
       IN  /\ legal_actions # <<>>
           /\ \E i \in choice(Drawn(random), Len(untried)) :
                LET action == untried[i]
                    next_state == apply_action(clone(state), action).state
                IN  /\ nodes' = [nodes EXCEPT ![key(state)].children =
                                     DictSet(@, action, key(next_state))]
                    /\ path' = Append(path, <<key(state), action, state.current_player>>)
                    /\ rstate' = next_state
                    /\ state' = Through(state, next_state)
                    /\ root_state' = Through(root_state, next_state)
    /\ pc' = "rollout(next_state)"
    /\ depth' = 0
    /\ random' = Drawn(Drawn(random))
    /\ UNCHANGED <<game, call, n_simulations, sims_done, value, result, earlier>>

\* _simulate: every legal action is in node.children: the best by uct_score
SimSelect(dice_roll) ==
    /\ pc = "simulate"
    /\ ~is_terminal(state)
    /\ key(state) \in DOMAIN nodes
    /\ dice_roll \in randint(random)
    /\ LET node == nodes[key(state)]
           legal_actions == get_legal_actions(state, dice_roll)
           scores == [i \in 1..Len(legal_actions) |->
                        uct_score(node, legal_actions[i], cpuct, state.current_player)]
           action == legal_actions[ArgMaxFirst(scores)]
       IN  /\ legal_actions # <<>>
           /\ Untried(node, legal_actions) = <<>>
           /\ path' = Append(path, <<key(state), action, state.current_player>>)
           /\ state' = apply_action(state, action).state
    /\ root_state' = Through(root_state, state')
    /\ random' = Drawn(random)
    /\ UNCHANGED <<game, call, n_simulations, nodes, pc, sims_done, rstate,
                   depth, value, result, earlier>>

\* _rollout runs on rstate: the object that _simulate calls state (at a new
\* leaf, where state changes with it) or its next_state (after an expansion)
InRollout == pc \in {"rollout(state)", "rollout(next_state)"}

\* what a change of the object _rollout plays on does to state and root_state
RolloutThrough ==
    /\ state' = IF pc = "rollout(state)" THEN rstate' ELSE Through(state, rstate')
    /\ root_state' = Through(root_state, rstate')

\* _rollout: the state is terminal: 1.0 or -1.0 (value = self._rollout(...))
RolloutTerminal ==
    /\ InRollout
    /\ depth < max_depth
    /\ is_terminal(rstate)
    /\ value' = IF winner(rstate) = "Blue" THEN 1
                ELSE IF winner(rstate) = "Red" THEN 0 - 1 ELSE 0
    /\ pc' = "backpropagate"
    /\ UNCHANGED <<game, call, root_state, n_simulations, nodes, sims_done,
                   state, path, rstate, depth, result, random, earlier>>

\* _rollout: the die gives no legal action: the turn passes
RolloutPass(dice_roll) ==
    /\ InRollout
    /\ depth < max_depth
    /\ ~is_terminal(rstate)
    /\ dice_roll \in randint(random)
    /\ get_legal_actions(rstate, dice_roll) = <<>>
    /\ rstate' = pass_turn(rstate)
    /\ RolloutThrough
    /\ depth' = depth + 1
    /\ random' = Drawn(random)
    /\ UNCHANGED <<game, call, n_simulations, nodes, pc, sims_done, path,
                   value, result, earlier>>

\* _rollout: one of the legal actions (random.choice) is applied
RolloutMove(dice_roll) ==
    /\ InRollout
    /\ depth < max_depth
    /\ ~is_terminal(rstate)
    /\ dice_roll \in randint(random)
    /\ LET legal_actions == get_legal_actions(rstate, dice_roll)
       IN  \E i \in choice(Drawn(random), Len(legal_actions)) :
               rstate' = apply_action(rstate, legal_actions[i]).state
    /\ RolloutThrough
    /\ depth' = depth + 1
    /\ random' = Drawn(Drawn(random))
    /\ UNCHANGED <<game, call, n_simulations, nodes, pc, sims_done, path,
                   value, result, earlier>>

\* Mutant of the last line of _rollout: the cap is scored as a win of Blue.
RolloutCapAsWin ==
    /\ InRollout
    /\ depth >= max_depth
    /\ value' = 1
    /\ pc' = "backpropagate"
    /\ UNCHANGED <<game, call, root_state, n_simulations, nodes, sims_done,
                   state, path, rstate, depth, result, random, earlier>>

\* _rollout: max_depth iterations are done: 0.0 (value = self._rollout(...))
RolloutCap ==
    /\ InRollout
    /\ depth >= max_depth
    /\ value' = 0
    /\ pc' = "backpropagate"
    /\ UNCHANGED <<game, call, root_state, n_simulations, nodes, sims_done,
                   state, path, rstate, depth, result, random, earlier>>

\* _simulate: winner = self._value_to_winner(value);
\* return self._backpropagate(path, winner)
Backpropagate ==
    /\ pc = "backpropagate"
    /\ Return(_value_to_winner(value))

\* ---------------------------------------------------------- the search
MaxSims == 3

\* Root states with few moves left, so that a rollout of 200 plies stays
\* small: one or two tokens of Blue short of the finish lane, Red with or
\* without a move; nobody with a move; Blue finished; Blue about to finish
\* (tokens past the lane: a list the caller made); Red to move; both
\* players with a move; Red with a move and Blue about to finish; Red about
\* to finish.
Lane == <<40, 41, 42, 43>>
Roots ==
    { LudoState(<<38, 41, 42, 43>>, Lane, "Blue"),
      LudoState(<<38, 39, 42, 43>>, Lane, "Blue"),
      LudoState(Lane, Lane, "Blue"),
      LudoState(<<43, 43, 43, 43>>, Lane, "Blue"),
      LudoState(<<44, 44, 44, 42>>, Lane, "Blue"),
      LudoState(<<38, 41, 42, 43>>, Lane, "Red"),
      LudoState(<<38, 41, 42, 43>>, <<39, 41, 42, 43>>, "Blue"),
      LudoState(<<44, 44, 44, 42>>, <<39, 41, 42, 43>>, "Red"),
      LudoState(Lane, <<44, 44, 44, 42>>, "Red") }

\* The root with two free tokens has the widest search tree: it is searched
\* with budgets up to 3, the others with budgets up to MaxSims.
WideRoots == { LudoState(<<38, 39, 42, 43>>, Lane, "Blue") }

Init ==
    /\ game = NoState
    /\ call = NoCall
    /\ root_state \in Roots
    /\ n_simulations \in 0..(IF root_state \in WideRoots THEN 3 ELSE MaxSims)
    /\ nodes = <<>>
    /\ pc = "idle"
    /\ sims_done = 0
    /\ state = NoState
    /\ path = <<>>
    /\ rstate = NoState
    /\ depth = 0
    /\ value = 0
    /\ result = "None"
    /\ random = Unseeded
    /\ earlier = <<>>

Next ==
    \/ ChooseBlueMove
    \/ Search
    \/ Simulate
    \/ SearchReturn
    \/ SimTerminal
    \/ SimNewLeaf
    \/ \E d \in Dice : SimPass(d)
    \/ \E d \in Dice : SimExpand(d)
    \/ \E d \in Dice : SimSelect(d)
    \/ RolloutTerminal
    \/ \E d \in Dice : RolloutPass(d)
    \/ \E d \in Dice : RolloutMove(d)
    \/ RolloutCap
    \/ Backpropagate

Spec == Init /\ [][Next]_vars

\* ------------------------------------------- two searches, the same seed
\* The caller seeds the random source, searches, seeds it again with the
\* same seed and searches the same root with the same budget once more: on
\* the engine of the first search, or on a new one.
StreamLen == 2

SeededRoots ==
    { LudoState(<<38, 41, 42, 43>>, Lane, "Blue"),
      LudoState(<<44, 44, 44, 42>>, Lane, "Blue"),
      LudoState(<<38, 41, 42, 43>>, <<39, 41, 42, 43>>, "Blue") }

SeededInit ==
    /\ game = NoState
    /\ call = NoCall
    /\ root_state \in SeededRoots
    /\ n_simulations \in 1..(MaxSims - 1)
    /\ nodes = <<>>
    /\ pc = "idle"
    /\ sims_done = 0
    /\ state = NoState
    /\ path = <<>>
    /\ rstate = NoState
    /\ depth = 0
    /\ value = 0
    /\ result = "None"
    /\ random \in {Seeded(stream) : stream \in [1..StreamLen -> Dice]}
    /\ earlier = <<>>

\* what is kept of a search that has returned
Returned(engine) == [engine |-> engine, nodes |-> nodes, result |-> result]

\* random.seed(seed); mcts.search(root_state), up to its loop, on the engine
\* of the search that has returned
SearchAgain ==
    /\ pc = "returned"
    /\ earlier = <<>>
    /\ earlier' = <<Returned("same")>>
    /\ random' = Seeded(random.stream)
    /\ nodes' = WithRoot(nodes, key(root_state))
    /\ pc' = "search"
    /\ sims_done' = 0
    /\ result' = "None"
    /\ UNCHANGED <<game, call, root_state, n_simulations, state, path, rstate,
                   depth, value>>

\* random.seed(seed); MCTS(n_simulations).search(root_state), up to its
\* loop: a new engine, as choose_blue_move makes one
SearchAnew ==
    /\ pc = "returned"
    /\ earlier = <<>>
    /\ earlier' = <<Returned("new")>>
    /\ random' = Seeded(random.stream)
    /\ nodes' = WithRoot(<<>>, key(root_state))
    /\ pc' = "search"
    /\ sims_done' = 0
    /\ result' = "None"
    /\ UNCHANGED <<game, call, root_state, n_simulations, state, path, rstate,
                   depth, value>>

SeededNext ==
    \/ Next
    \/ SearchAgain
    \/ SearchAnew

SeededSpec == SeededInit /\ [][SeededNext]_vars

\* ------------------------------------------------- claims on the rules
\* Vocabulary of the claims, stated without the operators of the model.
InRange(tokens) == \A i \in 1..Len(tokens) : HOME <= tokens[i] /\ tokens[i] <= 43

NoOwnStack(tokens) ==
    \A i, j \in 1..Len(tokens) :
        i # j /\ tokens[i] # HOME => tokens[i] # tokens[j]

MoverTokens(s, player) == IF player = "Blue" THEN s.blue_tokens ELSE s.red_tokens

\* all positions in [-1, 43], no two tokens of the player to move on the same
\* non-home position
WellFormed(s) ==
    /\ InRange(s.blue_tokens) /\ InRange(s.red_tokens)
    /\ NoOwnStack(MoverTokens(s, s.current_player))

Offset(player) == IF player = "Blue" THEN 0 ELSE 20

AppliedLegal ==
    call.op = "apply_action" /\ call.dice_roll \in Dice /\ WellFormed(call.pre)

Enumerated == call.op = "get_legal_actions" /\ WellFormed(call.pre)

Applied == call.op = "apply_action" /\ ~call.raised

\* C1: applying an action returned by get_legal_actions to a well-formed
\* state, for either player and any die, leaves every position of both players
\* in [-1, 43] and no two of the mover's tokens on the same non-home position.
C1_LegalMoveKeepsWellFormed ==
    AppliedLegal =>
        /\ InRange(game.blue_tokens) /\ InRange(game.red_tokens)
        /\ NoOwnStack(MoverTokens(game, call.pre.current_player))

\* C3: on a well-formed state a home token yields an action only for die 6,
\* that action's target is 0, and the entry action of a home token is absent
\* exactly when the mover has a token on its own relative position 0.
C3_EntryRule ==
    Enumerated =>
        LET tokens == MoverTokens(call.pre, call.pre.current_player)
        IN  \A idx \in 0..3 :
              tokens[idx + 1] = HOME =>
                /\ \A k \in 1..Len(call.legal_actions) :
                      call.legal_actions[k][1] = idx =>
                          call.dice_roll = 6 /\ call.legal_actions[k][2] = 0
                /\ call.dice_roll = 6 =>
                      (~InList(<<idx, 0>>, call.legal_actions) <=> InList(0, tokens))

\* C4: on a well-formed state a non-home token at p with target t = p + die
\* < 40 is in the result if and only if no token of the mover is at relative
\* position t, wherever the opponent's tokens are; and the result is in
\* ascending token-index order.
C4_TrackRule ==
    Enumerated =>
        LET tokens == MoverTokens(call.pre, call.pre.current_player)
        IN  /\ \A idx \in 0..3 :
                  LET t == tokens[idx + 1] + call.dice_roll
                  IN  tokens[idx + 1] # HOME /\ t < 40 =>
                        (InList(<<idx, t>>, call.legal_actions) <=> ~InList(t, tokens))
            /\ \A k \in 1..Len(call.legal_actions) - 1 :
                  call.legal_actions[k][1] < call.legal_actions[k + 1][1]

\* The ascending order alone, which the code keeps.
C4_Ascending ==
    Enumerated =>
        \A k \in 1..Len(call.legal_actions) - 1 :
            call.legal_actions[k][1] < call.legal_actions[k + 1][1]

\* C5: an apply_action that does not fail, with target t: if t < 40 it sends
\* home exactly the opponent tokens on the shared track whose absolute square
\* equals the mover's (offsets Blue 0, Red 20), leaves every other opponent
\* token and every other token of the mover as it was; t >= 40 captures nothing.
C5_CaptureExact ==
    Applied =>
        LET mover == call.pre.current_player
            opp == other_player(mover)
            idx == call.action[1]
            t == call.action[2]
            before == MoverTokens(call.pre, opp)
            after == MoverTokens(game, opp)
            own == MoverTokens(call.pre, mover)
            ownAfter == MoverTokens(game, mover)
        IN  /\ \A j \in 1..4 :
                  after[j] =
                    IF /\ t < 40
                       /\ 0 <= before[j] /\ before[j] < 40
                       /\ (Offset(opp) + before[j]) % 40 = (Offset(mover) + t) % 40
                    THEN HOME
                    ELSE before[j]
            /\ \A j \in 1..4 : j # idx + 1 => ownAfter[j] = own[j]

\* A capture by Red of a Blue token, another Blue token staying in the finish lane
C5_Witness ==
    /\ Applied
    /\ call.pre.current_player = "Red"
    /\ call.action[2] = 0
    /\ \E j, k \in 1..4 :
          /\ call.pre.blue_tokens[j] = 20 /\ game.blue_tokens[j] = HOME
          /\ call.pre.blue_tokens[k] = 40 /\ game.blue_tokens[k] = 40

\* C8: apply_action moving a home token to a target other than 0 fails and
\* leaves both token lists and current_player as they were.
C8_HomeTokenMustEnterAtZero ==
    (/\ call.op = "apply_action"
     /\ MoverTokens(call.pre, call.pre.current_player)[call.action[1] + 1] = HOME
     /\ call.action[2] # 0)
        => call.raised /\ game = call.pre

\* A failed call whose target square held an opponent token
C8_Witness ==
    /\ call.op = "apply_action"
    /\ call.raised
    /\ call.pre.current_player = "Blue"
    /\ call.action[2] = 20
    /\ InList(0, call.pre.red_tokens)
    /\ InList(0, game.red_tokens)

\* C9: every apply_action that does not fail passes the turn to the other
\* player, whatever the die and whether or not it captured, and moves exactly
\* the acting token to the target.
C9_TurnAlwaysPasses ==
    Applied =>
        LET mover == call.pre.current_player
        IN  /\ game.current_player = other_player(mover)
            /\ game.current_player # mover
            /\ MoverTokens(game, mover) =
                  [MoverTokens(call.pre, mover) EXCEPT ![call.action[1] + 1] = call.action[2]]

\* A move made with a 6 that captured
C9_Witness ==
    /\ Applied
    /\ call.dice_roll = 6
    /\ call.pre.current_player = "Blue"
    /\ game.red_tokens # call.pre.red_tokens
    /\ game.current_player = "Red"

\* ------------------------------------------ claims on the end of the game
\* the state a turn was played from
Before == IF call.op = "none" THEN game ELSE call.pre

LaneFormed(s) ==
    /\ InRange(s.blue_tokens) /\ InRange(s.red_tokens)
    /\ OnePerLaneSlot(s.blue_tokens) /\ OnePerLaneSlot(s.red_tokens)

\* C17: a state with positions in [-1, 43] and at most one token of each
\* player on each finish-lane slot 40..43 (the all-home start is one) is not
\* terminal and has no winner, and a turn played from it, a legal action or a
\* pass, leads to such a state again: so is every state reached from the
\* start, and no legal action ever ends the game.
C17_NobodyFinishes ==
    LaneFormed(Before) =>
        /\ LaneFormed(game)
        /\ ~is_terminal(game)
        /\ winner(game) = "None"

\* A token entered the last finish square, the fourth of three already in
\* the lane, and the game is not over
C17_Witness ==
    /\ call.op = "apply_action"
    /\ call.pre.current_player = "Blue"
    /\ call.pre.blue_tokens = <<40, 42, 39, 37>>
    /\ game.blue_tokens = <<40, 42, 43, 37>>
    /\ ~is_terminal(game)
AllAt43(tokens) == \A i \in 1..Len(tokens) : tokens[i] = 43

Asked ==
    /\ call.op = "winner"
    /\ InRange(call.pre.blue_tokens) /\ InRange(call.pre.red_tokens)

SimulateRoll(d, player) ==
    /\ state.current_player = player
    /\ SimPass(d) \/ SimExpand(d) \/ SimSelect(d)

FairRoots ==
    { LudoState(Lane, Lane, "Blue"),
      LudoState(<<44, 44, 44, 42>>, Lane, "Blue"),
      LudoState(<<38, 41, 42, 43>>, Lane, "Red") }

FairInit == Init /\ root_state \in FairRoots /\ n_simulations >= 1

FairSpec ==
    /\ FairInit
    /\ [][Next]_vars
    /\ WF_vars(Next)
    /\ \A d \in Dice, player \in Players : SF_vars(SimulateRoll(d, player))

\* ------------------------------------------------ claims on the search
Finished == pc \in {"returned", "raised"}

\* C2: search with a budget >= 1 on a new engine, from a well-formed
\* non-terminal root with Blue to move and a legal action for some die, never
\* returns None, whatever is drawn.
C2_SearchNeverNone ==
    (/\ pc = "returned"
     /\ n_simulations >= 1
     /\ WellFormed(root_state)
     /\ root_state.current_player = "Blue"
     /\ ~is_terminal(root_state)
     /\ \E d \in Dice : get_legal_actions(root_state, d) # <<>>)
        => result # "None"

\* C6: search terminates from every well-formed root state for every budget,
\* under fair sampling of the die.
C6_SearchTerminates == WellFormed(root_state) => <>Finished

\* C7: choose_blue_move on a state whose current_player is not Blue raises,
\* without a simulation, a node, or a change of the state passed; nothing
\* runs after the error.
C7_NotBlueRaises ==
    [][/\ (ChooseBlueMove /\ root_state.current_player # "Blue") =>
              /\ pc' = "raised"
              /\ nodes' = <<>>
              /\ sims_done' = 0
              /\ state' = NoState /\ path' = <<>>
              /\ root_state' = root_state
       /\ pc = "raised" => UNCHANGED vars]_vars

C7_Witness ==
    /\ pc = "raised"
    /\ root_state.current_player = "Red"
    /\ n_simulations >= 1
    /\ nodes = <<>>

\* C10: when search has returned and the root node has recorded actions, the
\* result is a recorded action with the largest visit count, the earliest
\* recorded among those with that count.
C10_RobustChild ==
    (pc = "returned" /\ nodes[key(root_state)].N # <<>>) =>
        LET N == nodes[key(root_state)].N
        IN  \E i \in 1..Len(N) :
                /\ result = N[i][1]
                /\ \A j \in 1..Len(N) : N[j][2] <= N[i][2]
                /\ \A j \in 1..(i - 1) : N[j][2] < N[i][2]

\* the most visited action is not the first recorded one
C10_Witness ==
    /\ pc = "returned"
    /\ Len(nodes[key(root_state)].N) >= 2
    /\ result # nodes[key(root_state)].N[1][1]
    /\ result # "None"

\* C13: in the selection phase, when the die gives no legal action at a
\* state that has a node, the turn is passed on the clone, no path entry is
\* added, no statistics change, and selection goes on from the same node: the
\* node looked up next, the one of the key of the state, is the node the pass
\* was made at, and no node is made.
C13_PassStaysAtNode ==
    [][(\E d \in Dice : SimPass(d)) =>
          /\ state'.current_player = other_player(state.current_player)
          /\ state'.blue_tokens = state.blue_tokens
          /\ state'.red_tokens = state.red_tokens
          /\ root_state' = root_state
          /\ path' = path
          /\ nodes' = nodes
          /\ key(state') = key(state)]_vars

\* What the code keeps of C13: the pass, the path and the statistics.
C13_PassChangesNoStatistics ==
    [][(\E d \in Dice : SimPass(d)) =>
          /\ state'.current_player = other_player(state.current_player)
          /\ state'.blue_tokens = state.blue_tokens
          /\ state'.red_tokens = state.red_tokens
          /\ root_state' = root_state
          /\ path' = path
          /\ nodes' = nodes]_vars

\* C14: search never changes the root_state it is given: both token lists and
\* current_player are, at every step and so when search returns, what they
\* were before the call; and expansion applies the action to a clone: the
\* state the action was chosen from is left as it was.
C14_RootStateKept ==
    [][/\ root_state' = root_state
       /\ (\E d \in Dice : SimExpand(d)) => state' = state]_vars

\* A rollout has moved a token of the clone made at an expansion
C14_Witness ==
    /\ pc = "rollout(next_state)"
    /\ depth >= 2
    /\ path # <<>>
    /\ rstate.blue_tokens # root_state.blue_tokens
    /\ state = root_state

\* the keys of a dict
KeysOf(d) == {d[i][1] : i \in 1..Len(d)}

\* how often the path of the simulation holds the node k, with the action a
OnPath(k) == Cardinality({i \in 1..Len(path) : path[i][1] = k})

OnPathWith(k, a) ==
    Cardinality({i \in 1..Len(path) : path[i][1] = k /\ path[i][2] = a})

\* the outcome of the simulation that ends: that of the terminal state
\* _simulate met, or of the value _rollout returned
Outcome ==
    IF pc = "simulate"
    THEN (IF winner(state) = "Blue" THEN 1
          ELSE IF winner(state) = "Red" THEN 0 - 1 ELSE 0)
    ELSE (IF value > 0 THEN 1 ELSE IF value < 0 THEN 0 - 1 ELSE 0)

\* C15: backpropagation with outcome o (+1 Blue win, -1 Red win, 0 otherwise)
\* adds, for each occurrence of a (node, action) on the path, 1 to N(action)
\* and to total_visits of that node and o to W(action), with the same sign at
\* every level; nodes and actions not on the path keep their statistics, and
\* no node or child is made or lost.
C15_BackpropagationCounts ==
    [][sims_done' = sims_done + 1 =>
          /\ DOMAIN nodes' = DOMAIN nodes
          /\ \A k \in DOMAIN nodes :
                /\ nodes'[k].state_key = nodes[k].state_key
                /\ nodes'[k].children = nodes[k].children
                /\ nodes'[k].total_visits = nodes[k].total_visits + OnPath(k)
                /\ KeysOf(nodes'[k].N) = KeysOf(nodes'[k].W)
                /\ \A a \in KeysOf(nodes'[k].N) \cup KeysOf(nodes[k].N)
                           \cup {path[i][2] : i \in 1..Len(path)} :
                      /\ DictGet(nodes'[k].N, a, 0) =
                            DictGet(nodes[k].N, a, 0) + OnPathWith(k, a)
                      /\ DictGet(nodes'[k].W, a, 0) =
                            DictGet(nodes[k].W, a, 0) + Outcome * OnPathWith(k, a)]_vars

\* Blue has won a simulation whose path holds an action of Red and, after
\* it, an action of Blue: both have W = 1
C15_Witness ==
    /\ pc = "search"
    /\ root_state.current_player = "Red"
    /\ \E a \in KeysOf(nodes[key(root_state)].W) :
          /\ DictGet(nodes[key(root_state)].W, a, 0) >= 1
          /\ LET child == DictGet(nodes[key(root_state)].children, a, <<>>)
             IN  /\ child \in DOMAIN nodes
                 /\ child[1] = "Blue"
                 /\ \E b \in KeysOf(nodes[child].W) :
                       DictGet(nodes[child].W, b, 0) = 1

\* every token of the list is on the last finish square (or, in a list a
\* caller made, past it)
Finished4(tokens) == \A i \in 1..Len(tokens) : tokens[i] >= 43

\* the score of the state a rollout stopped in
Score(s) ==
    IF Finished4(s.blue_tokens) THEN 1
    ELSE IF Finished4(s.red_tokens) THEN 0 - 1 ELSE 0

\* C16: _rollout ends after at most 200 iterations; it returns +1 only if
\* the state it stops in is a win of Blue, -1 only if it is a win of Red, and
\* 0 when the cap is reached; and from a well-formed state, whenever the state
\* it stops in is terminal, the value is the winner's score.
C16_RolloutValue ==
    /\ depth <= 200
    /\ pc = "backpropagate" =>
          /\ value \in {0 - 1, 0, 1}
          /\ value = 1 => Finished4(rstate.blue_tokens)
          /\ value = 0 - 1 =>
                Finished4(rstate.red_tokens) /\ ~Finished4(rstate.blue_tokens)
          /\ depth = 200 => value = 0
          /\ (WellFormed(root_state) /\ Score(rstate) # 0) => value = Score(rstate)

\* A rollout from a well-formed root has moved a token and stopped at the cap
C16_Witness ==
    /\ pc = "backpropagate"
    /\ WellFormed(root_state)
    /\ depth = 200
    /\ value = 0
    /\ rstate.blue_tokens # root_state.blue_tokens

\* The last part of C16 for the token lists a caller can make (positions
\* past 43), where a rollout can reach the end of the game: the code does
\* not keep it when the 200th iteration makes the terminal state.
C16_TerminalScoredFromAnyList ==
    (pc = "backpropagate" /\ Score(rstate) # 0) => value = Score(rstate)

\* C18: in a search on a new engine from a well-formed root that is not
\* terminal, no simulation meets a terminal state, every value a rollout
\* returns is 0, and so W(a) = 0 for every action of every node, at all
\* times.
C18_AllOutcomesZero ==
    (WellFormed(root_state) /\ Score(root_state) = 0) =>
        /\ pc = "simulate" => Score(state) = 0
        /\ InRollout => Score(rstate) = 0
        /\ pc = "backpropagate" => value = 0
        /\ \A k \in DOMAIN nodes :
              \A i \in 1..Len(nodes[k].W) : nodes[k].W[i][2] = 0

\* A search from a well-formed root has returned; an action of Blue and an
\* action of Red have been backpropagated to
C18_Witness ==
    /\ pc = "returned"
    /\ WellFormed(root_state) /\ Score(root_state) = 0
    /\ result # "None"
    /\ \E k \in DOMAIN nodes : k[1] = "Red" /\ nodes[k].W # <<>>

\* the sum of the values of a dict
RECURSIVE SumOf(_)
SumOf(d) == IF d = <<>> THEN 0 ELSE Head(d)[2] + SumOf(Tail(d))

\* no simulation is between its expansion and its backpropagation
BetweenSimulations == ~InRollout /\ pc # "backpropagate"

\* C19: between simulations every node has the same keys in N, W and
\* children, every recorded N(a) is at least 1, total_visits is the sum of
\* the N(a), and |W(a)| <= N(a); so selection, which looks only at actions in
\* children, never scores an action with N(a) = 0.
C19_NodeStatistics ==
    BetweenSimulations =>
        \A k \in DOMAIN nodes :
            LET node == nodes[k]
            IN  /\ KeysOf(node.N) = KeysOf(node.children)
                /\ KeysOf(node.W) = KeysOf(node.children)
                /\ Len(node.N) = Cardinality(KeysOf(node.N))
                /\ \A a \in KeysOf(node.children) :
                      /\ DictGet(node.N, a, 0) >= 1
                      /\ DictGet(node.W, a, 0) <= DictGet(node.N, a, 0)
                      /\ 0 - DictGet(node.W, a, 0) <= DictGet(node.N, a, 0)
                /\ node.total_visits = SumOf(node.N)

\* Selection is about to score the two actions of a die, both recorded
C19_Witness ==
    /\ pc = "simulate"
    /\ key(state) \in DOMAIN nodes
    /\ Len(nodes[key(state)].N) = 2
    /\ nodes[key(state)].total_visits = 2
    /\ \E d \in Dice :
          /\ Len(get_legal_actions(state, d)) = 2
          /\ Untried(nodes[key(state)], get_legal_actions(state, d)) = <<>>

\* the state a key (current_player, blue_tokens, red_tokens) stands for
StateOf(k) == LudoState(k[2], k[3], k[1])

LegalForSomeDie(s, a) == \E d \in Dice : InList(a, get_legal_actions(s, d))

\* the node under key k has state_key = k; every action recorded at the node
\* of a state s is a legal action of the player to move in s for some die;
\* children[a] is the key of the state that applying a to s gives
NodesConsistent ==
    \A k \in DOMAIN nodes :
        LET node == nodes[k]
            s == StateOf(k)
        IN  /\ node.state_key = k
            /\ \A a \in KeysOf(node.children) \cup KeysOf(node.N) :
                  /\ LegalForSomeDie(s, a)
                  /\ LET next == apply_action(s, a).state
                     IN  DictGet(node.children, a, <<>>) =
                           <<next.current_player, next.blue_tokens, next.red_tokens>>

VisitCounts(nds) == [k \in DOMAIN nds |-> nds[k].N]

\* the second of two searches of the same root with the same budget and the
\* same seed has returned
SecondReturned == pc = "returned" /\ earlier # <<>>

\* C11: two searches of the same root state with the same budget that get
\* the same random draws end with the same visit counts of every action at
\* every node and return the same action: two searches on new engines
\* (choose_blue_move), and two searches one after the other on the same
\* engine.
C11_SameDrawsSameSearch ==
    SecondReturned =>
        /\ VisitCounts(nodes) = VisitCounts(earlier[1].nodes)
        /\ result = earlier[1].result

\* What the code keeps of C11: the two searches on new engines.
C11_SameDrawsSameSearchOnNewEngines ==
    (SecondReturned /\ earlier[1].engine = "new") =>
        /\ VisitCounts(nodes) = VisitCounts(earlier[1].nodes)
        /\ result = earlier[1].result

\* A second search on a new engine has returned an action after two
\* simulations
C11_NewEngineWitness ==
    /\ SecondReturned
    /\ earlier[1].engine = "new"
    /\ n_simulations = 2
    /\ result # "None"
    /\ nodes[key(root_state)].total_visits = 2

====
